---- MODULE Spec2Model ----
(***************************************************************************)
(* The policy subcommands of `step ca policy ... {allow|deny} <kind>`:     *)
(* cn-regex, uri-constraint, uri-regex, email-regex, dns-regex and         *)
(* principal-regex.  Every invocation creates an admin client, retrieves   *)
(* the policy document from the CA, adds the arguments to (or removes them *)
(* from) one list of the document, pushes the document back and prints it. *)
(*                                                                         *)
(* Strings of the command line are TLA+ strings; error messages are        *)
(* sequences of words so that what a message names can be inspected.       *)
(***************************************************************************)
EXTENDS Integers, Sequences, FiniteSets, TLC

VARIABLES
    remote,     \* the policy document stored at the CA
    run,        \* the inputs of the last invocation (NoRun before the first)
    retrieved,  \* <<document>> retrieved by the last invocation, <<>> if none
    policy,     \* <<document>> held in memory when the last invocation returned
    pushed,     \* the documents the last invocation sent to the admin API
    printed,    \* the documents the last invocation printed
    err,        \* the error the last invocation returned, <<>> for nil
    steps,      \* the steps the last invocation performed, in order
    n,          \* the number of invocations so far
    hist        \* history: per list, the values that entered it, in order

vars == <<remote, run, retrieved, policy, pushed, printed, err, steps, n, hist>>

----------------------------------------------------------------------------
(* Bounds *)

\* the most arguments on one command line
MaxArgs == 2

\* the most invocations in a behaviour of SpecUriRegex
MaxRuns == 2

\* the strings a command line is built from: two that differ in case only,
\* and one that is neither a valid regular expression nor a parseable URI
Values == {"a", "A", "http://["}

Branches == {"X509", "SSHHost", "SSHUser"}

Sides == {"allow", "deny"}

Commands == {"cn-regex", "uri-constraint", "uri-regex", "email-regex", "dns-regex", "principal-regex"}

ApiOutcomes == {"ok", "clientFails", "retrieveFails", "updateFails"}

RECURSIVE SeqsUpTo(_, _)
SeqsUpTo(S, k) ==
    IF k = 0 THEN {<<>>}
    ELSE LET shorter == SeqsUpTo(S, k - 1)
         IN  shorter \cup {Append(s, v) : s \in {t \in shorter : Len(t) = k - 1}, v \in S}

Range(s) == {s[i] : i \in 1..Len(s)}

ArgLists == SeqsUpTo(Values, MaxArgs)

----------------------------------------------------------------------------
(* The policy document: the lists the six commands index into *)

Cells ==
    {<<"X509", s, f>> : s \in Sides,
        f \in {"CommonNameRegex", "UriConstraints", "UriRegex", "EmailRegex", "DnsRegex"}}
    \cup {<<"SSHHost", s, f>> : s \in Sides, f \in {"DnsRegex", "PrincipalRegex"}}
    \cup {<<"SSHUser", s, f>> : s \in Sides, f \in {"EmailRegex", "PrincipalRegex"}}

EmptyPolicy == [c \in Cells |-> <<>>]

\* the documents a CA may hold when a command starts: every list of the
\* document holds the same duplicate-free list, or one branch does
InitPolicies ==
    {[c \in Cells |-> IF c[1] \in bs THEN s ELSE <<>>] :
        bs \in {Branches, {"X509"}, {"SSHHost"}, {"SSHUser"}},
        s \in {t \in SeqsUpTo(Values, 2) : Cardinality(Range(t)) = Len(t)}}

----------------------------------------------------------------------------
(* policycontext: which branch and which of allow/deny the command is under *)

IsSSHHostPolicy(ctx) == ctx.branch = "SSHHost"

IsSSHUserPolicy(ctx) == ctx.branch = "SSHUser"

IsX509Policy(ctx) == ctx.branch = "X509"

IsAllow(ctx) == ctx.side = "allow"

IsDeny(ctx) == ctx.side = "deny"

Contexts == [branch : Branches, side : Sides]

----------------------------------------------------------------------------
(* Helpers of the actions package *)

Contains(items, item) == \E i \in 1..Len(items) : items[i] = item

remove(item, items) == SelectSeq(items, LAMBDA i : i # item)

RECURSIVE removeAll(_, _)
removeAll(existingNames, args) ==
    IF args = <<>> THEN existingNames
    ELSE removeAll(remove(Head(args), existingNames), Tail(args))

RECURSIVE addAll(_, _)
addAll(existingNames, args) ==
    IF args = <<>> THEN existingNames
    ELSE addAll(IF Contains(existingNames, Head(args)) THEN existingNames
                ELSE Append(existingNames, Head(args)),
                Tail(args))

addOrRemoveArguments(existingNames, args, shouldRemove) ==
    IF shouldRemove THEN removeAll(existingNames, args) ELSE addAll(existingNames, args)

\* the document as retrieved from the CA, with every list present
retrieveAndInitializePolicy(doc) == doc

\* the document the CA stores and returns when the update is accepted
updatePolicy(doc) == doc

\* the outcome of a command's switch: an error, or the mutated document
Rejected(msg, doc) == [err |-> msg, policy |-> doc, mutated |-> FALSE]

Mutated(doc, cell, args, shouldRemove) ==
    [err |-> <<>>,
     policy |-> [doc EXCEPT ![cell] = addOrRemoveArguments(doc[cell], args, shouldRemove)],
     mutated |-> TRUE]

----------------------------------------------------------------------------
(* The switch of each action over the policy context *)


\* the allow case writes the deny list
commonNameRegexSwitch_denyForAllow(ctx, doc, args, shouldRemove) ==
    IF IsSSHHostPolicy(ctx) THEN
        Rejected(<<"SSH", "host", "policy", "does", "not", "support", "common", "name", "regex", "patterns">>, doc)
    ELSE IF IsSSHUserPolicy(ctx) THEN
        Rejected(<<"SSH", "user", "policy", "does", "not", "support", "common", "name", "regex", "patterns">>, doc)
    ELSE
        Mutated(doc, <<"X509", "deny", "CommonNameRegex">>, args, shouldRemove)

commonNameRegexSwitch(ctx, doc, args, shouldRemove) ==
    IF IsSSHHostPolicy(ctx) THEN
        Rejected(<<"SSH", "host", "policy", "does", "not", "support", "common", "name", "regex", "patterns">>, doc)
    ELSE IF IsSSHUserPolicy(ctx) THEN
        Rejected(<<"SSH", "user", "policy", "does", "not", "support", "common", "name", "regex", "patterns">>, doc)
    ELSE IF IsAllow(ctx) THEN
        Mutated(doc, <<"X509", "allow", "CommonNameRegex">>, args, shouldRemove)
    ELSE
        Mutated(doc, <<"X509", "deny", "CommonNameRegex">>, args, shouldRemove)


\* the list is changed before the branch is looked at
uriConstraintSwitch_mutateFirst(ctx, doc, args, shouldRemove) ==
    LET changed == Mutated(doc, <<"X509", ctx.side, "UriConstraints">>, args, shouldRemove)
    IN  IF IsSSHHostPolicy(ctx) THEN
            Rejected(<<"SSH", "host", "policy", "does", "not", "support", "URI", "constraints">>, changed.policy)
        ELSE IF IsSSHUserPolicy(ctx) THEN
            Rejected(<<"SSH", "user", "policy", "does", "not", "support", "URI", "constraints">>, changed.policy)
        ELSE changed

uriConstraintSwitch(ctx, doc, args, shouldRemove) ==
    IF IsSSHHostPolicy(ctx) THEN
        Rejected(<<"SSH", "host", "policy", "does", "not", "support", "URI", "constraints">>, doc)
    ELSE IF IsSSHUserPolicy(ctx) THEN
        Rejected(<<"SSH", "user", "policy", "does", "not", "support", "URI", "constraints">>, doc)
    ELSE IF IsAllow(ctx) THEN
        Mutated(doc, <<"X509", "allow", "UriConstraints">>, args, shouldRemove)
    ELSE
        Mutated(doc, <<"X509", "deny", "UriConstraints">>, args, shouldRemove)


\* the list and the arguments are passed in each other's place
uriRegexSwitch_swapped(ctx, doc, args, shouldRemove) ==
    IF IsSSHHostPolicy(ctx) THEN
        Rejected(<<"SSH", "host", "policy", "does", "not", "support", "URI", "regex", "patterns">>, doc)
    ELSE IF IsSSHUserPolicy(ctx) THEN
        Rejected(<<"SSH", "user", "policy", "does", "not", "support", "URI", "regex", "patterns">>, doc)
    ELSE
        [err |-> <<>>,
         policy |-> [doc EXCEPT ![<<"X509", ctx.side, "UriRegex">>] =
                        addOrRemoveArguments(args, @, shouldRemove)],
         mutated |-> TRUE]

\* the deny case starts from the allow list
uriRegexSwitch_denyFromAllow(ctx, doc, args, shouldRemove) ==
    IF IsSSHHostPolicy(ctx) THEN
        Rejected(<<"SSH", "host", "policy", "does", "not", "support", "URI", "regex", "patterns">>, doc)
    ELSE IF IsSSHUserPolicy(ctx) THEN
        Rejected(<<"SSH", "user", "policy", "does", "not", "support", "URI", "regex", "patterns">>, doc)
    ELSE IF IsAllow(ctx) THEN
        Mutated(doc, <<"X509", "allow", "UriRegex">>, args, shouldRemove)
    ELSE
        [err |-> <<>>,
         policy |-> [doc EXCEPT ![<<"X509", "deny", "UriRegex">>] =
                        addOrRemoveArguments(doc[<<"X509", "allow", "UriRegex">>], args, shouldRemove)],
         mutated |-> TRUE]

\* the --remove flag is read negated
uriRegexSwitch_negatedRemove(ctx, doc, args, shouldRemove) ==
    IF IsSSHHostPolicy(ctx) THEN
        Rejected(<<"SSH", "host", "policy", "does", "not", "support", "URI", "regex", "patterns">>, doc)
    ELSE IF IsSSHUserPolicy(ctx) THEN
        Rejected(<<"SSH", "user", "policy", "does", "not", "support", "URI", "regex", "patterns">>, doc)
    ELSE IF IsAllow(ctx) THEN
        Mutated(doc, <<"X509", "allow", "UriRegex">>, args, ~shouldRemove)
    ELSE
        Mutated(doc, <<"X509", "deny", "UriRegex">>, args, ~shouldRemove)

uriRegexSwitch(ctx, doc, args, shouldRemove) ==
    IF IsSSHHostPolicy(ctx) THEN
        Rejected(<<"SSH", "host", "policy", "does", "not", "support", "URI", "regex", "patterns">>, doc)
    ELSE IF IsSSHUserPolicy(ctx) THEN
        Rejected(<<"SSH", "user", "policy", "does", "not", "support", "URI", "regex", "patterns">>, doc)
    ELSE IF IsAllow(ctx) THEN
        Mutated(doc, <<"X509", "allow", "UriRegex">>, args, shouldRemove)
    ELSE
        Mutated(doc, <<"X509", "deny", "UriRegex">>, args, shouldRemove)


\* the SSH user cases write the X.509 lists as well
emailRegexSwitch_alsoX509(ctx, doc, args, shouldRemove) ==
    IF IsSSHHostPolicy(ctx) THEN
        Rejected(<<"SSH", "host", "policy", "does", "not", "support", "email", "regex", "patterns">>, doc)
    ELSE IF IsSSHUserPolicy(ctx) THEN
        Mutated(Mutated(doc, <<"X509", ctx.side, "EmailRegex">>, args, shouldRemove).policy,
                <<"SSHUser", ctx.side, "EmailRegex">>, args, shouldRemove)
    ELSE IF IsAllow(ctx) THEN
        Mutated(doc, <<"X509", "allow", "EmailRegex">>, args, shouldRemove)
    ELSE
        Mutated(doc, <<"X509", "deny", "EmailRegex">>, args, shouldRemove)

emailRegexSwitch(ctx, doc, args, shouldRemove) ==
    IF IsSSHHostPolicy(ctx) THEN
        Rejected(<<"SSH", "host", "policy", "does", "not", "support", "email", "regex", "patterns">>, doc)
    ELSE IF IsSSHUserPolicy(ctx) THEN
        IF IsAllow(ctx) THEN Mutated(doc, <<"SSHUser", "allow", "EmailRegex">>, args, shouldRemove)
        ELSE Mutated(doc, <<"SSHUser", "deny", "EmailRegex">>, args, shouldRemove)
    ELSE IF IsAllow(ctx) THEN
        Mutated(doc, <<"X509", "allow", "EmailRegex">>, args, shouldRemove)
    ELSE
        Mutated(doc, <<"X509", "deny", "EmailRegex">>, args, shouldRemove)


\* the SSH host case rejects, as it does in the X.509-only commands
dnsRegexSwitch_hostRejected(ctx, doc, args, shouldRemove) ==
    IF IsSSHHostPolicy(ctx) THEN
        Rejected(<<"SSH", "host", "policy", "does", "not", "support", "DNS", "regex", "patterns">>, doc)
    ELSE IF IsSSHUserPolicy(ctx) THEN
        Rejected(<<"SSH", "user", "policy", "does", "not", "support", "DNS", "regex", "patterns">>, doc)
    ELSE IF IsAllow(ctx) THEN
        Mutated(doc, <<"X509", "allow", "DnsRegex">>, args, shouldRemove)
    ELSE
        Mutated(doc, <<"X509", "deny", "DnsRegex">>, args, shouldRemove)

dnsRegexSwitch(ctx, doc, args, shouldRemove) ==
    IF IsSSHHostPolicy(ctx) THEN
        IF IsAllow(ctx) THEN Mutated(doc, <<"SSHHost", "allow", "DnsRegex">>, args, shouldRemove)
        ELSE Mutated(doc, <<"SSHHost", "deny", "DnsRegex">>, args, shouldRemove)
    ELSE IF IsSSHUserPolicy(ctx) THEN
        Rejected(<<"SSH", "user", "policy", "does", "not", "support", "DNS", "regex", "patterns">>, doc)
    ELSE IF IsAllow(ctx) THEN
        Mutated(doc, <<"X509", "allow", "DnsRegex">>, args, shouldRemove)
    ELSE
        Mutated(doc, <<"X509", "deny", "DnsRegex">>, args, shouldRemove)


\* the X.509 case returns the message of another command
principalRegexSwitch_otherKind(ctx, doc, args, shouldRemove) ==
    IF IsSSHHostPolicy(ctx) THEN
        IF IsAllow(ctx) THEN Mutated(doc, <<"SSHHost", "allow", "PrincipalRegex">>, args, shouldRemove)
        ELSE Mutated(doc, <<"SSHHost", "deny", "PrincipalRegex">>, args, shouldRemove)
    ELSE IF IsSSHUserPolicy(ctx) THEN
        IF IsAllow(ctx) THEN Mutated(doc, <<"SSHUser", "allow", "PrincipalRegex">>, args, shouldRemove)
        ELSE Mutated(doc, <<"SSHUser", "deny", "PrincipalRegex">>, args, shouldRemove)
    ELSE
        Rejected(<<"X.509", "policy", "does", "not", "support", "DNS", "regex", "patterns">>, doc)

principalRegexSwitch(ctx, doc, args, shouldRemove) ==
    IF IsSSHHostPolicy(ctx) THEN
        IF IsAllow(ctx) THEN Mutated(doc, <<"SSHHost", "allow", "PrincipalRegex">>, args, shouldRemove)
        ELSE Mutated(doc, <<"SSHHost", "deny", "PrincipalRegex">>, args, shouldRemove)
    ELSE IF IsSSHUserPolicy(ctx) THEN
        IF IsAllow(ctx) THEN Mutated(doc, <<"SSHUser", "allow", "PrincipalRegex">>, args, shouldRemove)
        ELSE Mutated(doc, <<"SSHUser", "deny", "PrincipalRegex">>, args, shouldRemove)
    ELSE
        Rejected(<<"X.509", "policy", "does", "not", "support", "principal", "regex", "patterns">>, doc)

----------------------------------------------------------------------------
(* History: the values that entered each list of the stored document, in  *)
(* the order in which they entered it                                       *)

RECURSIVE FirstOccurrences(_)
FirstOccurrences(s) ==
    IF s = <<>> THEN <<>>
    ELSE LET front == FirstOccurrences(SubSeq(s, 1, Len(s) - 1))
             last  == s[Len(s)]
         IN  IF \E i \in 1..Len(front) : front[i] = last THEN front ELSE Append(front, last)

\* a value entered list c of doc if it is there now and was not in the stored
\* document; values of one command line enter in argument order
Entered(c, doc, args) ==
    SelectSeq(FirstOccurrences(args),
              LAMBDA v : (\E i \in 1..Len(doc[c]) : doc[c][i] = v)
                         /\ ~(\E i \in 1..Len(remote[c]) : remote[c][i] = v))

HistAfter(doc, args) == [c \in Cells |-> hist[c] \o Entered(c, doc, args)]

----------------------------------------------------------------------------
(* The body shared by the six actions *)

NoRun == [cmd |-> "none", ctx |-> [branch |-> "X509", side |-> "allow"], args |-> <<>>, remove |-> FALSE, api |-> "ok"]

Init ==
    /\ remote \in InitPolicies
    /\ run = NoRun
    /\ retrieved = <<>>
    /\ policy = <<>>
    /\ pushed = <<>>
    /\ printed = <<>>
    /\ err = <<>>
    /\ steps = <<>>
    /\ n = 0
    /\ hist = remote

TooFewArguments == <<"not", "enough", "positional", "arguments", "were", "provided">>

Wrap(prefix, cause) == prefix \o cause

ApiError == <<"api", "error">>

\* the invocation returns e without having changed the stored document
Return(e, did, got, held, sent) ==
    /\ err' = e
    /\ steps' = did
    /\ retrieved' = got
    /\ policy' = held
    /\ pushed' = sent
    /\ printed' = <<>>
    /\ UNCHANGED <<remote, hist>>


\* the admin client is created before the arguments are counted
runAction_clientFirst(cmd, ctx, args, shouldRemove, api, sw) ==
    /\ run = NoRun
    /\ n' = n + 1
    /\ run' = [cmd |-> cmd, ctx |-> ctx, args |-> args, remove |-> shouldRemove, api |-> api]
    /\ IF api = "clientFails" THEN
           Return(Wrap(<<"error", "creating", "admin", "client:">>, ApiError),
                  <<"client">>, <<>>, <<>>, <<>>)
       ELSE IF Len(args) = 0 THEN
           Return(TooFewArguments, <<"client", "args">>, <<>>, <<>>, <<>>)
       ELSE IF api = "retrieveFails" THEN
           Return(Wrap(<<"error", "retrieving", "policy:">>, ApiError),
                  <<"client", "args", "retrieve">>, <<>>, <<>>, <<>>)
       ELSE
           LET got == retrieveAndInitializePolicy(remote)
           IN  IF sw.err # <<>> THEN
                   Return(sw.err, <<"client", "args", "retrieve">>, <<got>>, <<sw.policy>>, <<>>)
               ELSE IF api = "updateFails" THEN
                   Return(Wrap(<<"error", "updating", "policy:">>, ApiError),
                          <<"client", "args", "retrieve", "mutate", "update">>,
                          <<got>>, <<sw.policy>>, <<sw.policy>>)
               ELSE
                   /\ err' = <<>>
                   /\ steps' = <<"client", "args", "retrieve", "mutate", "update", "print">>
                   /\ retrieved' = <<got>>
                   /\ policy' = <<sw.policy>>
                   /\ pushed' = <<sw.policy>>
                   /\ remote' = updatePolicy(sw.policy)
                   /\ printed' = <<updatePolicy(sw.policy)>>
                   /\ hist' = HistAfter(updatePolicy(sw.policy), args)

\* sw is the outcome of the action's switch on the retrieved document
runAction(cmd, ctx, args, shouldRemove, api, sw) ==
    /\ run = NoRun
    /\ n' = n + 1
    /\ run' = [cmd |-> cmd, ctx |-> ctx, args |-> args, remove |-> shouldRemove, api |-> api]
    /\ IF Len(args) = 0 THEN
           Return(TooFewArguments, <<"args">>, <<>>, <<>>, <<>>)
       ELSE IF api = "clientFails" THEN
           Return(Wrap(<<"error", "creating", "admin", "client:">>, ApiError),
                  <<"args", "client">>, <<>>, <<>>, <<>>)
       ELSE IF api = "retrieveFails" THEN
           Return(Wrap(<<"error", "retrieving", "policy:">>, ApiError),
                  <<"args", "client", "retrieve">>, <<>>, <<>>, <<>>)
       ELSE
           LET got == retrieveAndInitializePolicy(remote)
           IN  IF sw.err # <<>> THEN
                   Return(sw.err, <<"args", "client", "retrieve">>, <<got>>, <<sw.policy>>, <<>>)
               ELSE IF api = "updateFails" THEN
                   Return(Wrap(<<"error", "updating", "policy:">>, ApiError),
                          <<"args", "client", "retrieve", "mutate", "update">>,
                          <<got>>, <<sw.policy>>, <<sw.policy>>)
               ELSE
                   /\ err' = <<>>
                   /\ steps' = <<"args", "client", "retrieve", "mutate", "update", "print">>
                   /\ retrieved' = <<got>>
                   /\ policy' = <<sw.policy>>
                   /\ pushed' = <<sw.policy>>
                   /\ remote' = updatePolicy(sw.policy)
                   /\ printed' = <<updatePolicy(sw.policy)>>
                   /\ hist' = HistAfter(updatePolicy(sw.policy), args)

commonNameRegexAction ==
    \E ctx \in Contexts, args \in ArgLists, shouldRemove \in BOOLEAN, api \in ApiOutcomes :
        runAction("cn-regex", ctx, args, shouldRemove, api,
                  commonNameRegexSwitch(ctx, retrieveAndInitializePolicy(remote), args, shouldRemove))

uriConstraintAction ==
    \E ctx \in Contexts, args \in ArgLists, shouldRemove \in BOOLEAN, api \in ApiOutcomes :
        runAction("uri-constraint", ctx, args, shouldRemove, api,
                  uriConstraintSwitch(ctx, retrieveAndInitializePolicy(remote), args, shouldRemove))

uriRegexAction ==
    \E ctx \in Contexts, args \in ArgLists, shouldRemove \in BOOLEAN, api \in ApiOutcomes :
        runAction("uri-regex", ctx, args, shouldRemove, api,
                  uriRegexSwitch(ctx, retrieveAndInitializePolicy(remote), args, shouldRemove))

emailRegexAction ==
    \E ctx \in Contexts, args \in ArgLists, shouldRemove \in BOOLEAN, api \in ApiOutcomes :
        runAction("email-regex", ctx, args, shouldRemove, api,
                  emailRegexSwitch(ctx, retrieveAndInitializePolicy(remote), args, shouldRemove))

dnsRegexAction ==
    \E ctx \in Contexts, args \in ArgLists, shouldRemove \in BOOLEAN, api \in ApiOutcomes :
        runAction("dns-regex", ctx, args, shouldRemove, api,
                  dnsRegexSwitch(ctx, retrieveAndInitializePolicy(remote), args, shouldRemove))

principalRegexAction ==
    \E ctx \in Contexts, args \in ArgLists, shouldRemove \in BOOLEAN, api \in ApiOutcomes :
        runAction("principal-regex", ctx, args, shouldRemove, api,
                  principalRegexSwitch(ctx, retrieveAndInitializePolicy(remote), args, shouldRemove))

\* the process ends: what the invocation held in memory is gone, what the CA
\* stores stays
exit ==
    /\ run # NoRun
    /\ run' = NoRun
    /\ retrieved' = <<>>
    /\ policy' = <<>>
    /\ pushed' = <<>>
    /\ printed' = <<>>
    /\ err' = <<>>
    /\ steps' = <<>>
    /\ UNCHANGED <<remote, n, hist>>

\* one invocation of any of the six commands, against any stored document
Next ==
    \/ n = 0 /\ commonNameRegexAction
    \/ n = 0 /\ uriConstraintAction
    \/ n = 0 /\ uriRegexAction
    \/ n = 0 /\ emailRegexAction
    \/ n = 0 /\ dnsRegexAction
    \/ n = 0 /\ principalRegexAction
    \/ exit

Spec == Init /\ [][Next]_vars

\* a series of uri-regex invocations against the same CA
NextUriRegex ==
    \/ n < MaxRuns /\ uriRegexAction
    \/ exit

\* the CA starts with no rules, or with the same two rules in every list
InitUriRegex == Init /\ remote \in {EmptyPolicy, [c \in Cells |-> <<"a", "A">>]}

SpecUriRegex == InitUriRegex /\ [][NextUriRegex]_vars

----------------------------------------------------------------------------
(* Vocabulary of the properties *)

\* the (branch, command) pairs of the legality table
LegalTable ==
    {<<"X509", "dns-regex">>, <<"SSHHost", "dns-regex">>,
     <<"X509", "email-regex">>, <<"SSHUser", "email-regex">>,
     <<"X509", "uri-constraint">>, <<"X509", "uri-regex">>, <<"X509", "cn-regex">>,
     <<"SSHHost", "principal-regex">>, <<"SSHUser", "principal-regex">>}

FieldOf(cmd) ==
    CASE cmd = "cn-regex" -> "CommonNameRegex"
      [] cmd = "uri-constraint" -> "UriConstraints"
      [] cmd = "uri-regex" -> "UriRegex"
      [] cmd = "email-regex" -> "EmailRegex"
      [] cmd = "dns-regex" -> "DnsRegex"
      [] cmd = "principal-regex" -> "PrincipalRegex"

\* the list a command line selects: (branch, allow or deny, kind)
TargetCell == <<run.ctx.branch, run.ctx.side, FieldOf(run.cmd)>>

Legal == <<run.ctx.branch, run.cmd>> \in LegalTable

Ran == run # NoRun

\* the invocation had arguments, a client and the policy document
ReachedSwitch == Ran /\ Len(run.args) > 0 /\ run.api \notin {"clientFails", "retrieveFails"}

Succeeded == Ran /\ err = <<>>

HasPhrase(msg, words) ==
    \E i \in 0..(Len(msg) - Len(words)) : \A j \in 1..Len(words) : msg[i + j] = words[j]

IsUnsupported(msg) == HasPhrase(msg, <<"does", "not", "support">>)

BranchWords(b) ==
    CASE b = "SSHHost" -> <<"SSH", "host">>
      [] b = "SSHUser" -> <<"SSH", "user">>
      [] b = "X509" -> <<"X.509">>

KindWords(cmd) ==
    CASE cmd = "cn-regex" -> <<"common", "name", "regex">>
      [] cmd = "uri-constraint" -> <<"URI", "constraints">>
      [] cmd = "uri-regex" -> <<"URI", "regex">>
      [] cmd = "email-regex" -> <<"email", "regex">>
      [] cmd = "dns-regex" -> <<"DNS", "regex">>
      [] cmd = "principal-regex" -> <<"principal", "regex">>

NoDuplicates(s) == \A i, j \in 1..Len(s) : s[i] = s[j] => i = j

----------------------------------------------------------------------------
(* C1 - C3: the legality of (branch, kind) *)

\* C1: a command that got as far as its switch reaches the list mutation
\* exactly when its (branch, kind) pair is in the legality table, and returns
\* the unsupported-combination error exactly when the pair is not in it.
C1_LegalityTable ==
    ReachedSwitch =>
        /\ Legal <=> (\E i \in 1..Len(steps) : steps[i] = "mutate")
        /\ ~Legal <=> IsUnsupported(err)

C1_Witness ==
    /\ ReachedSwitch
    /\ run.cmd = "email-regex" /\ run.ctx.branch = "SSHUser"
    /\ \E i \in 1..Len(steps) : steps[i] = "mutate"
    /\ ~IsUnsupported(err)

\* C2: a command on a pair that is not legal changes no list of the document
\* it retrieved and sends no update, whatever its arguments and with or
\* without --remove; once it has its arguments, a client and the document,
\* the error it returns is the unsupported-combination error.
C2_RejectedBeforeMutation ==
    (Ran /\ ~Legal) =>
        /\ pushed = <<>>
        /\ printed = <<>>
        /\ policy = retrieved
        /\ \A i \in 1..Len(retrieved) : retrieved[i] = remote
        /\ ReachedSwitch => (IsUnsupported(err) /\ retrieved = <<remote>>)

C2_Witness ==
    /\ ReachedSwitch /\ ~Legal
    /\ run.cmd = "uri-constraint" /\ run.remove
    /\ Len(run.args) = MaxArgs
    /\ \E c \in Cells : remote[c] # <<>>
    /\ IsUnsupported(err)

\* C3: the unsupported-combination error names the active branch and the
\* kind of the command that ran, and names no other branch and no other kind.
C3_ErrorNamesBranchAndKind ==
    (Ran /\ IsUnsupported(err)) =>
        /\ HasPhrase(err, BranchWords(run.ctx.branch))
        /\ HasPhrase(err, KindWords(run.cmd))
        /\ \A b \in Branches \ {run.ctx.branch} : ~HasPhrase(err, BranchWords(b))
        /\ \A k \in Commands \ {run.cmd} : ~HasPhrase(err, KindWords(k))

C3_Witness ==
    /\ Ran /\ IsUnsupported(err)
    /\ run.cmd = "principal-regex" /\ run.ctx.branch = "X509"
    /\ err = <<"X.509", "policy", "does", "not", "support", "principal", "regex", "patterns">>

----------------------------------------------------------------------------
(* C4, C9: what a command on a legal list does with its arguments *)

\* C4: after a successful command exactly one document was pushed, and in the
\* selected list of that document every argument is a member when the command
\* added, and no argument is a member when it removed.
C4_ArgumentsInOrOut ==
    (Succeeded /\ Legal) =>
        /\ Len(pushed) = 1
        /\ \A i \in 1..Len(run.args) :
              Contains(pushed[1][TargetCell], run.args[i]) <=> ~run.remove

C4_Witness ==
    /\ Succeeded /\ Legal /\ run.remove
    /\ Len(run.args) = 2 /\ run.args[1] # run.args[2]
    /\ Len(retrieved[1][TargetCell]) = 2
    /\ Contains(retrieved[1][TargetCell], run.args[1])
    /\ Len(pushed[1][TargetCell]) = 1

\* a value no *-regex command can compile and uri-constraint cannot parse
Malformed(v) == v = "http://["

\* C9: an add whose arguments include a malformed pattern returns an error,
\* leaves the selected list as retrieved, and no pushed document holds the
\* malformed value in that list.
C9_MalformedRejected ==
    (ReachedSwitch /\ Legal /\ ~run.remove /\ \E i \in 1..Len(run.args) : Malformed(run.args[i])) =>
        /\ err # <<>>
        /\ policy[1][TargetCell] = retrieved[1][TargetCell]
        /\ \A i \in 1..Len(pushed) : \A j \in 1..Len(pushed[i][TargetCell]) :
              ~Malformed(pushed[i][TargetCell][j])

----------------------------------------------------------------------------
(* C5 - C8: a series of commands on the same lists *)

\* the behaviour started from the document without rules
StartedEmpty == remote[<<"SSHHost", "allow", "DnsRegex">>] = <<>>

\* C5: no list of the stored document, and no list of a pushed document,
\* holds the same string twice; strings that differ in case are different.
C5_NoDuplicates ==
    /\ \A c \in Cells : NoDuplicates(remote[c])
    /\ \A i \in 1..Len(pushed) : \A c \in Cells : NoDuplicates(pushed[i][c])

C5_Witness ==
    /\ n = 2 /\ Succeeded /\ ~run.remove
    /\ run.args = <<"a", "a">>
    /\ retrieved[1][TargetCell] = <<"A">>
    /\ remote[TargetCell] = <<"A", "a">>

\* C6: an add of values that are all in the selected list already leaves the
\* list with the same members and the same size.
C6_AddIdempotent ==
    (Succeeded /\ Legal /\ ~run.remove
        /\ \A i \in 1..Len(run.args) : Contains(retrieved[1][TargetCell], run.args[i])) =>
        /\ Range(pushed[1][TargetCell]) = Range(retrieved[1][TargetCell])
        /\ Len(pushed[1][TargetCell]) = Len(retrieved[1][TargetCell])
        /\ Len(remote[TargetCell]) = Len(retrieved[1][TargetCell])

\* the second of two adds of the same value to a list that started empty
C6_Witness ==
    /\ StartedEmpty /\ n = 2 /\ Succeeded /\ ~run.remove
    /\ run.args = <<"a">>
    /\ Contains(retrieved[1][TargetCell], "a")
    /\ remote[TargetCell] = retrieved[1][TargetCell]

\* C7: a --remove of values none of which is in the selected list leaves the
\* list as it was, elements and order, and returns no error of its own: the
\* command succeeds whenever the API calls do.
C7_RemoveAbsentNoOp ==
    (ReachedSwitch /\ Legal /\ run.remove
        /\ \A i \in 1..Len(run.args) : ~Contains(retrieved[1][TargetCell], run.args[i])) =>
        /\ policy[1][TargetCell] = retrieved[1][TargetCell]
        /\ remote[TargetCell] = retrieved[1][TargetCell]
        /\ run.api = "ok" => (err = <<>> /\ pushed = retrieved)

\* the second of two removes of the same value
C7_Witness ==
    /\ ~StartedEmpty /\ n = 2 /\ Succeeded /\ run.remove
    /\ run.args = <<"a">>
    /\ Contains(hist[TargetCell], "a")
    /\ retrieved[1][TargetCell] = <<"A">>
    /\ remote[TargetCell] = <<"A">>

Reverse(s) == [i \in 1..Len(s) |-> s[Len(s) + 1 - i]]

\* the values of list c, in the order in which each first entered the list
ByFirstEntry(c) == SelectSeq(FirstOccurrences(hist[c]), LAMBDA v : Contains(remote[c], v))

\* the values of list c, in the order in which each last entered the list
ByLastEntry(c) ==
    SelectSeq(Reverse(FirstOccurrences(Reverse(hist[c]))), LAMBDA v : Contains(remote[c], v))

\* C8 as stated: the values of a list appear in the order in which they were
\* first added.
C8_OrderOfFirstAddition == \A c \in Cells : remote[c] = ByFirstEntry(c)

\* C8 amended: the values of a list appear in the order in which they last
\* entered it; an add leaves the values already there in place and appends the
\* new ones in argument order, a --remove leaves the remaining values in their
\* order.
C8_OrderOfLastEntry ==
    /\ \A c \in Cells : remote[c] = ByLastEntry(c)
    /\ (Succeeded /\ Legal) =>
          LET old == retrieved[1][TargetCell]
              new == pushed[1][TargetCell]
          IN  IF run.remove
              THEN new = SelectSeq(old, LAMBDA v : ~Contains(run.args, v))
              ELSE new = old \o SelectSeq(FirstOccurrences(run.args), LAMBDA v : ~Contains(old, v))

\* a value removed and added again stands after the value that stayed
C8_Witness ==
    /\ n = 2 /\ Succeeded /\ ~run.remove
    /\ hist[TargetCell] = <<"a", "A", "a">>
    /\ remote[TargetCell] = <<"A", "a">>

----------------------------------------------------------------------------
(* C12: what a successful command leaves alone *)

\* C12: after a successful command every list other than the one selected by
\* (branch, allow or deny, kind) is in the pushed document, and in the stored
\* one, what it was in the retrieved document.
C12_OtherListsUnchanged ==
    (Succeeded /\ Legal) =>
        \A c \in Cells \ {TargetCell} :
            /\ pushed[1][c] = retrieved[1][c]
            /\ remote[c] = retrieved[1][c]

\* an SSH user allow command that changed its list, beside lists with rules
C12_Witness ==
    /\ Succeeded /\ Legal
    /\ run.cmd = "email-regex" /\ run.ctx = [branch |-> "SSHUser", side |-> "allow"]
    /\ pushed[1][TargetCell] # retrieved[1][TargetCell]
    /\ retrieved[1][<<"SSHUser", "deny", "EmailRegex">>] # <<>>
    /\ retrieved[1][<<"X509", "allow", "EmailRegex">>] # <<>>

----------------------------------------------------------------------------
(* C13: the order of the steps of one invocation *)

StepOrder == <<"args", "client", "retrieve", "mutate", "update", "print">>

IsPrefix(s, t) == Len(s) <= Len(t) /\ \A i \in 1..Len(s) : s[i] = t[i]

Did(step) == \E i \in 1..Len(steps) : steps[i] = step

\* e is the API's error with a prefix that says which call failed
Forwards(e, prefix) == e = prefix \o ApiError

\* C13: the steps of a run are an initial part of: count the arguments, create
\* the client, retrieve, mutate, update, print.  At most one update is sent,
\* and only with a client and a retrieved document; a failing API call ends
\* the run with its error and without printing; without arguments the run
\* ends before the client is created.
C13_StepOrder ==
    Ran =>
        /\ steps # <<>> /\ IsPrefix(steps, StepOrder)
        /\ Len(pushed) <= 1
        /\ pushed # <<>> <=> Did("update")
        /\ pushed # <<>> =>
              (Did("client") /\ Did("retrieve") /\ Len(retrieved) = 1
               /\ run.api \notin {"clientFails", "retrieveFails"})
        /\ printed # <<>> <=> Did("print")
        /\ printed # <<>> => (err = <<>> /\ printed = pushed)
        /\ Len(run.args) = 0 =>
              (steps = <<"args">> /\ err = TooFewArguments
               /\ retrieved = <<>> /\ pushed = <<>> /\ printed = <<>>)
        /\ (Len(run.args) > 0 /\ run.api = "clientFails") =>
              (steps = <<"args", "client">> /\ retrieved = <<>> /\ pushed = <<>> /\ printed = <<>>
               /\ Forwards(err, <<"error", "creating", "admin", "client:">>))
        /\ (Len(run.args) > 0 /\ run.api = "retrieveFails") =>
              (steps = <<"args", "client", "retrieve">> /\ retrieved = <<>> /\ pushed = <<>>
               /\ printed = <<>> /\ Forwards(err, <<"error", "retrieving", "policy:">>))
        /\ (Len(run.args) > 0 /\ run.api = "updateFails" /\ Legal) =>
              (steps = <<"args", "client", "retrieve", "mutate", "update">> /\ printed = <<>>
               /\ remote = retrieved[1]
               /\ Forwards(err, <<"error", "updating", "policy:">>))

\* an update that the API refused
C13_Witness ==
    /\ Ran /\ Legal /\ run.api = "updateFails"
    /\ run.cmd = "principal-regex"
    /\ steps = <<"args", "client", "retrieve", "mutate", "update">>
    /\ Len(pushed) = 1 /\ pushed[1] # remote
    /\ printed = <<>>

====
